---- MODULE Spec2Model ----
(***************************************************************************)
(* The first-scan ledger of the MemeWatch bot (utils/database.py,          *)
(* utils/utils/database.py), the glue that consults it                     *)
(* (cogs/solana.py, Solana.format_scan_info), the construction of the      *)
(* DatabaseManager, and the connection tasks of the CryptoBot (bot.py).    *)
(*                                                                         *)
(* The store is one SQLite file shared by every connection.  A ledger call *)
(* opens its own connection, runs one statement and commits; its body has  *)
(* no await, and SQLite serialises the implicit transaction, so the body   *)
(* of a call is one atomic step.  Calls of different clients interleave.   *)
(***************************************************************************)
EXTENDS Integers, Sequences, FiniteSets, TLC

\* ---- bounds ----
NumHandlers == 2     \* concurrent format_scan_info invocations
MaxTime     == 1     \* the clock runs over 0..MaxTime
MaxRestarts == 1     \* restarts of each background loop that are followed
MaxClock    == 3     \* the clock of the rate limiter runs over 0..MaxClock
MaxLen      == 3     \* length of a message text, in symbols

\* ---- the data the calls are made with ----
Handlers == 1..NumHandlers
Procs    == {1, 2}         \* bot processes that share the store
Tokens   == {"T1"}
Guilds   == {1, 2}         \* guild ids
Users    == {1, 2}         \* user ids
Mcaps    == {0, 1}         \* valuations
Prices   == {1}
PhMcaps  == {1}

\* ---- Python values: an id is passed as an int or as its string form ----
None    == [none |-> TRUE]
IntV(n) == [int |-> n]
StrV(s) == [str |-> s]
Digit   == <<"0", "1", "2", "3", "4", "5", "6", "7", "8", "9">>

RECURSIVE Dec(_)
Dec(n) == IF n < 10 THEN Digit[n + 1] ELSE Dec(n \div 10) \o Digit[(n % 10) + 1]

\* str(x): the decimal text of an int, a string unchanged
Str(x) == IF "int" \in DOMAIN x THEN Dec(x.int) ELSE x.str

Forms(ids) == {IntV(n) : n \in ids} \cup {StrV(Dec(n)) : n \in ids}
Keys == Tokens \X {Dec(n) : n \in Guilds}

VARIABLES
    token_scans,     \* rows of table token_scans
    price_history,   \* rows of table price_history
    now,             \* datetime.now(timezone.utc).timestamp()
    ret,             \* the latest direct ledger call and its outcome
    first,           \* history: first[k] the first save_scan on k that reached the store
    has_db,          \* Solana.db is set (the bot object has a db attribute)
    pc,              \* pc[h]: where format_scan_info invocation h is
    frame,           \* frame[h]: its locals
    out,             \* out[h]: what it returned; unscanned: its lookup was answered
                     \* and found no row, and its save_scan was answered
    loop,            \* loop[p]: the task that holds the event loop of process p
    lock,            \* another connection holds the write lock of the store
    mgr,             \* the DatabaseManager: how its construction ended
    bot,             \* the CryptoBot: its connection and its two background tasks
    last_scan,       \* Solana.last_scan: user -> time of the last accepted scan
    input,           \* the arguments of the handler call in hand
    effect           \* what that call returned and did

vars == <<token_scans, price_history, now, ret, first, has_db, pc, frame, out, loop,
          lock, mgr, bot, last_scan, input, effect>>
store == <<token_scans, price_history>>
glue == <<has_db, pc, frame, out, loop>>
life == <<lock, mgr, bot>>
cogs == <<last_scan, input, effect>>

\* ---- the store ----
\* WHERE token_address = ? AND guild_id = ?: the rows of pair k in a table,
\* and in the stored table
RowsIn(rows, k) == {r \in rows : r.token_address = k[1] /\ r.guild_id = k[2]}
RowsOf(k) == RowsIn(token_scans, k)

\* a table declared without the key: every row is its own key
NoPrimaryKey(r) == r

\* a key on the token alone
TokenKey(r) == <<r.token_address>>

\* PRIMARY KEY (token_address, guild_id) of token_scans
PrimaryKey(r) == <<r.token_address, r.guild_id>>

\* INSERT OR REPLACE: the new row takes the place of the row with its key
InsertOrReplace(rows, row) ==
    {r \in rows : PrimaryKey(r) # PrimaryKey(row)} \cup {row}

\* INSERT OR IGNORE INTO token_scans: a row whose key is taken is dropped
InsertOrIgnore(rows, row) ==
    IF \E r \in rows : PrimaryKey(r) = PrimaryKey(row) THEN rows ELSE rows \cup {row}

\* DROP TABLE, then CREATE TABLE
DropAndCreate(rows) == {}

\* CREATE TABLE IF NOT EXISTS on a table that exists
CreateTableIfNotExists(rows) == rows

\* a save_scan whose except branch also returns True
SaveScanSwallow(rows, token_address, scanner_id, mcap, guild_id, t, fault) ==
    IF fault
    THEN [rows |-> rows, result |-> TRUE]
    ELSE [rows |-> InsertOrIgnore(rows,
                      [token_address |-> token_address,
                       first_scanner |-> Str(scanner_id),
                       scan_time     |-> t,
                       first_mcap    |-> mcap,
                       guild_id      |-> Str(guild_id)]),
          result |-> TRUE]

\* body of DatabaseManager.save_scan; fault: the connection raised sqlite3.Error
SaveScanBody(rows, token_address, scanner_id, mcap, guild_id, t, fault) ==
    IF fault
    THEN [rows |-> rows, result |-> FALSE]
    ELSE [rows |-> InsertOrIgnore(rows,
                      [token_address |-> token_address,
                       first_scanner |-> Str(scanner_id),
                       scan_time     |-> t,
                       first_mcap    |-> mcap,
                       guild_id      |-> Str(guild_id)]),
          result |-> TRUE]

\* a lookup whose WHERE clause leaves the guild out
GetScanInfoAnyGuild(rows, token_address, guild_id, fault) ==
    IF fault
    THEN [rows |-> rows, result |-> None]
    ELSE LET m == {r \in rows : r.token_address = token_address}
         IN  IF m = {} THEN [rows |-> rows, result |-> None]
             ELSE LET r == CHOOSE r \in m : TRUE
                  IN  [rows |-> rows,
                       result |-> <<r.first_scanner, r.scan_time, r.first_mcap>>]

\* a lookup that inserts the row it did not find
GetOrCreateScanInfo(rows, token_address, guild_id, fault) ==
    IF fault
    THEN [rows |-> rows, result |-> None]
    ELSE LET m == {r \in rows : r.token_address = token_address
                                /\ r.guild_id = Str(guild_id)}
         IN  IF m = {}
             THEN [rows |-> rows \cup {[token_address |-> token_address,
                                        first_scanner |-> "0", scan_time |-> 0,
                                        first_mcap |-> 0,
                                        guild_id |-> Str(guild_id)]},
                   result |-> None]
             ELSE LET r == CHOOSE r \in m : TRUE
                  IN  [rows |-> rows,
                       result |-> <<r.first_scanner, r.scan_time, r.first_mcap>>]

\* body of DatabaseManager.get_scan_info: the SELECT changes no row, the
\* result is c.fetchone(), or None after sqlite3.Error
GetScanInfoBody(rows, token_address, guild_id, fault) ==
    IF fault
    THEN [rows |-> rows, result |-> None]
    ELSE LET m == {r \in rows : r.token_address = token_address
                                /\ r.guild_id = Str(guild_id)}
         IN  IF m = {} THEN [rows |-> rows, result |-> None]
             ELSE LET r == CHOOSE r \in m : TRUE
                  IN  [rows |-> rows,
                       result |-> <<r.first_scanner, r.scan_time, r.first_mcap>>]

\* body of DatabaseManager.update_price_history: a plain INSERT, the key
\* (token_address, timestamp) taken raises sqlite3.IntegrityError
UpdatePriceHistoryBody(rows, token_address, price, mcap, t, fault) ==
    IF fault \/ \E r \in rows : r.token_address = token_address /\ r.timestamp = t
    THEN [rows |-> rows, result |-> FALSE]
    ELSE [rows |-> rows \cup {[token_address |-> token_address, price |-> price,
                               mcap |-> mcap, timestamp |-> t]},
          result |-> TRUE]

InitStore ==
    /\ token_scans = {}
    /\ price_history = {}
    /\ now = 0
    /\ ret = None
    /\ first = [k \in Keys |-> None]

InitGlue ==
    /\ pc = [h \in Handlers |-> "idle"]
    /\ frame = [h \in Handlers |-> None]
    /\ out = [h \in Handlers |-> None]
    /\ loop = [p \in Procs |-> 0]

\* a DatabaseManager whose constructor returned: tables created, logger set
Constructed == [logger |-> TRUE, raised |-> "none", logged |-> FALSE, fault |-> FALSE]

\* a CryptoBot after __init__: no task created, not connected, no cog loaded,
\* _background_tasks = set(). gen: how many times each loop was restarted
\* (0: the live task is bg_task / presence_task); beat: flips at each turn
\* of a loop
NewBot ==
    [closed |-> FALSE, ready |-> FALSE, ws |-> "none", session |-> "none",
     hb |-> "absent", hb_cancel |-> "no", hb_try |-> "none",
     pr |-> "absent", pr_cancel |-> FALSE, cl |-> "none",
     tasks |-> {}, gen |-> [hb |-> 0, pr |-> 0], beat |-> 0]

\* Solana.__init__: last_scan = {}; no handler call in hand
InitCogs ==
    /\ last_scan = [u \in Users |-> None]
    /\ input = None
    /\ effect = None

InitLife ==
    /\ lock = FALSE
    /\ mgr = Constructed
    /\ bot = NewBot
    /\ InitCogs

Init == InitStore /\ InitGlue /\ InitLife /\ has_db = TRUE

\* the clock advances
Tick ==
    /\ now < MaxTime
    /\ now' = now + 1
    /\ UNCHANGED <<store, ret, first, glue, life, cogs>>

\* the history of the pair after a save_scan: the arguments of the first
\* call that reached the store
NoteFirst(k, scanner_id, mcap, fault) ==
    IF ~fault /\ first[k] = None
    THEN [first EXCEPT ![k] = [scanner_id |-> Str(scanner_id), mcap |-> mcap,
                               time |-> now]]
    ELSE first

\* what a save_scan call leaves behind: the store, the outcome, the history
SaveScanCall(token_address, scanner_id, mcap, guild_id, fault) ==
    LET k == <<token_address, Str(guild_id)>>
        r == SaveScanBody(token_scans, token_address, scanner_id, mcap,
                          guild_id, now, fault)
    IN  /\ token_scans' = r.rows
        /\ ret' = IF fault
                  THEN [op |-> "save_scan", key |-> k, val |-> r.result,
                        fault |-> TRUE, created |-> r.rows # token_scans]
                  ELSE [op |-> "save_scan", key |-> k, val |-> r.result,
                        fault |-> FALSE, created |-> r.rows # token_scans,
                        scanner_id |-> Str(scanner_id), mcap |-> mcap,
                        guild_id |-> guild_id,
                        looked |-> /\ ret # None
                                   /\ ret.op = "get_scan_info"
                                   /\ ret.key = k
                                   /\ ~ret.fault
                                   /\ ret.val = None]
        /\ first' = NoteFirst(k, scanner_id, mcap, fault)

\* a task calls DatabaseManager.save_scan
save_scan ==
    /\ \/ \E token_address \in Tokens, scanner_id \in Forms(Users), mcap \in Mcaps,
             guild_id \in Forms(Guilds) :
            SaveScanCall(token_address, scanner_id, mcap, guild_id, FALSE)
       \/ \E token_address \in Tokens, guild_id \in Forms(Guilds) :
            SaveScanCall(token_address, IntV(1), 0, guild_id, TRUE)
    /\ UNCHANGED <<price_history, now, glue, life, cogs>>

\* a task calls DatabaseManager.get_scan_info
get_scan_info ==
    /\ \E token_address \in Tokens, guild_id \in Forms(Guilds), fault \in BOOLEAN :
         LET r == GetScanInfoBody(token_scans, token_address, guild_id, fault)
         IN  /\ token_scans' = r.rows
             /\ ret' = [op |-> "get_scan_info",
                        key |-> <<token_address, Str(guild_id)>>,
                        guild_id |-> guild_id,
                        val |-> r.result,
                        fault |-> fault,
                        saved_as |-> IF /\ ret # None /\ ret.op = "save_scan"
                                        /\ ~ret.fault /\ ret.created
                                        /\ ret.key = <<token_address, Str(guild_id)>>
                                     THEN ret.guild_id ELSE None]
    /\ UNCHANGED <<price_history, now, first, glue, life, cogs>>

\* a task calls DatabaseManager.update_price_history
update_price_history ==
    /\ \E token_address \in Tokens, price \in Prices, mcap \in PhMcaps,
          fault \in BOOLEAN :
         LET r == UpdatePriceHistoryBody(price_history, token_address, price,
                                         mcap, now, fault)
         IN  /\ price_history' = r.rows
             /\ ret' = [op |-> "update_price_history", val |-> r.result,
                        fault |-> fault]
    /\ UNCHANGED <<token_scans, now, first, glue, life, cogs>>

\* setup_database runs again on the same file (another DatabaseManager)
setup_database ==
    /\ \E fault \in BOOLEAN :
         /\ token_scans' = IF fault THEN token_scans
                           ELSE CreateTableIfNotExists(token_scans)
         /\ price_history' = IF fault THEN price_history
                             ELSE CreateTableIfNotExists(price_history)
         /\ ret' = [op |-> "setup_database", fault |-> fault]
    /\ UNCHANGED <<now, first, glue, life, cogs>>

Next ==
    \/ Tick
    \/ save_scan
    \/ get_scan_info
    \/ update_price_history
    \/ setup_database

Spec == Init /\ [][Next]_vars

\* ---- the glue: Solana.format_scan_info ----
\* the process an invocation runs in, and the author of its message
ProcOf(h)   == ((h - 1) % Cardinality(Procs)) + 1
AuthorOf(h) == ((h - 1) % Cardinality(Users)) + 1

\* the class Solana defines format_number but no format_time_ago: the call
\* self.format_time_ago(scan_time) raises AttributeError
HasFormatTimeAgo == FALSE

\* a test that also takes a row with a zero valuation for "no row"
FalsyOrZero(scan_info) == scan_info = None \/ scan_info[3] = 0

\* `not scan_info`: None is falsy, a fetched row (a 3-tuple) is truthy
Falsy(scan_info) == scan_info = None

\* int(s) of the decimal text s
ParseInt(s) == CHOOSE n \in 0..99 : Dec(n) = s

Empty == [kind |-> "empty"]

\* a handler without the try: the exception reaches the caller
NoExcept(e) == [kind |-> "raised", exc |-> e]

\* except Exception as e: the error is logged and "" is returned
ExceptException(e) == [kind |-> "empty", logged |-> e]

\* a comparison that also calls an unchanged valuation a pump
TrendAtLeast(mcap, first_mcap) == IF mcap >= first_mcap THEN "pumped" ELSE "dipped"

\* if mcap > first_mcap: "Token pumped!" else: "Token dipped!"
Trend(mcap, first_mcap) == IF mcap > first_mcap THEN "pumped" ELSE "dipped"

\* the trailer of a later mention, from the locals f of invocation h
Trailer(h, f) ==
    [kind |-> "trend", name |-> AuthorOf(h), mcap |-> f.mcap,
     trend |-> Trend(f.mcap, f.scan_info[3]),
     first_scanner |-> ParseInt(f.scan_info[1]),
     first_mcap |-> f.scan_info[3],
     time_ago |-> now - f.scan_info[2]]

\* an invocation may take a step when the event loop of its process is free,
\* or is held by the invocation itself
CanRun(h) == loop[ProcOf(h)] \in {0, h}

\* a handler that goes to the ledger whatever self.db is
DbUnchecked == FALSE

\* if not self.db: self.db is getattr(bot, 'db', None)
NoDb == ~has_db

\* format_scan_info up to its first suspension: the db check and the lookup.
\* Awaiting get_scan_info and then save_scan suspends nowhere, so a task that
\* takes the first-scan branch keeps the event loop of its process until it
\* returns; tasks of other processes are not held back.
\* fault: the lookup hit sqlite3.Error (get_scan_info returns None); the
\* first branch below is a lookup that raised an exception of another class.
format_scan_info(h) ==
    /\ pc[h] = "idle" /\ CanRun(h)
    /\ IF NoDb
       THEN /\ out' = [out EXCEPT ![h] = Empty]
            /\ UNCHANGED <<token_scans, pc, frame, loop>>
       ELSE \/ /\ out' = [out EXCEPT ![h] = ExceptException("Exception")]
               /\ UNCHANGED <<token_scans, pc, frame, loop>>
            \/ \E token_address \in Tokens, guild \in Guilds, mcap \in Mcaps,
                  fault \in BOOLEAN :
                 LET g == StrV(Dec(guild))
                     k == <<token_address, Str(g)>>
                     r == GetScanInfoBody(token_scans, token_address, g, fault)
                     f == [key |-> k, guild_id |-> g, mcap |-> mcap,
                           unscanned |-> ~fault /\ RowsOf(k) = {}]
                 IN  /\ token_scans' = r.rows
                     /\ out' = [out EXCEPT ![h] = None]
                     /\ IF Falsy(r.result)
                        THEN /\ pc' = [pc EXCEPT ![h] = "first"]
                             /\ frame' = [frame EXCEPT ![h] = f]
                             /\ loop' = [loop EXCEPT ![ProcOf(h)] = h]
                        ELSE /\ pc' = [pc EXCEPT ![h] = "subsequent"]
                             /\ frame' = [frame EXCEPT ![h] =
                                            [key |-> k, mcap |-> mcap,
                                             scan_info |-> r.result]]
                             /\ UNCHANGED loop
    /\ UNCHANGED <<price_history, now, ret, first, has_db, life, cogs>>

\* the first-scan branch: save_scan, its result dropped, then the text;
\* a save_scan that raises leaves the store as it was (the connection's
\* context manager rolls back)
first_scan(h) ==
    /\ pc[h] = "first" /\ CanRun(h)
    /\ \/ /\ out' = [out EXCEPT ![h] = ExceptException("Exception")]
          /\ UNCHANGED <<token_scans, first>>
       \/ \E fault \in BOOLEAN :
            LET f == frame[h]
                r == SaveScanBody(token_scans, f.key[1], IntV(AuthorOf(h)), f.mcap,
                                  f.guild_id, now, fault)
            IN  /\ token_scans' = r.rows
                /\ first' = NoteFirst(f.key, IntV(AuthorOf(h)), f.mcap, fault)
                /\ out' = [out EXCEPT ![h] =
                             [kind |-> "first", name |-> AuthorOf(h),
                              mcap |-> f.mcap, key |-> f.key,
                              unscanned |-> f.unscanned /\ ~fault]]
    /\ pc' = [pc EXCEPT ![h] = "idle"]
    /\ frame' = [frame EXCEPT ![h] = None]
    /\ loop' = [loop EXCEPT ![ProcOf(h)] = 0]
    /\ UNCHANGED <<price_history, now, ret, has_db, life, cogs>>

\* the branch of a later mention: fetch_user, format_time_ago, the trend;
\* fetched: fetch_user returned a user (it raises NotFound or HTTPException
\* otherwise)
subsequent_scan(h) ==
    /\ pc[h] = "subsequent" /\ CanRun(h)
    /\ \E fetched \in BOOLEAN :
         out' = [out EXCEPT ![h] =
                   IF ~fetched THEN ExceptException("NotFound")
                   ELSE IF ~HasFormatTimeAgo THEN ExceptException("AttributeError")
                   ELSE Trailer(h, frame[h])]
    /\ pc' = [pc EXCEPT ![h] = "idle"]
    /\ frame' = [frame EXCEPT ![h] = None]
    /\ UNCHANGED <<store, now, ret, first, has_db, loop, life, cogs>>

InitFsi == InitStore /\ InitGlue /\ InitLife /\ has_db \in BOOLEAN

\* the clock stands still in this part: format_scan_info reads it nowhere
\* (scan_time only reaches the text of the trailer)
NextFsi ==
    \/ \E h \in Handlers : format_scan_info(h)
    \/ \E h \in Handlers : first_scan(h)
    \/ \E h \in Handlers : subsequent_scan(h)

SpecFsi == InitFsi /\ [][NextFsi]_vars

\* ---- the trend derivation on its own ----
\* the stores in which every pair has been scanned once
TrendTables ==
    {{[token_address |-> k[1], first_scanner |-> Dec(u[k]), scan_time |-> 0,
       first_mcap |-> fm[k], guild_id |-> k[2]] : k \in Keys} :
        u \in [Keys -> Users], fm \in [Keys -> Mcaps]}

\* the comparison and the return statement of the later-mention branch
derive_trend(h) ==
    /\ pc[h] = "subsequent" /\ CanRun(h)
    /\ out' = [out EXCEPT ![h] = Trailer(h, frame[h])]
    /\ pc' = [pc EXCEPT ![h] = "idle"]
    /\ frame' = [frame EXCEPT ![h] = None]
    /\ UNCHANGED <<store, now, ret, first, has_db, loop, life, cogs>>

\* every invocation is a later mention that has fetched the row of its pair
InitTrend ==
    /\ token_scans \in TrendTables
    /\ price_history = {}
    /\ now = 0
    /\ ret = None
    /\ first = [k \in Keys |->
                  LET r == CHOOSE r \in RowsOf(k) : TRUE
                  IN  [scanner_id |-> r.first_scanner, mcap |-> r.first_mcap,
                       time |-> r.scan_time]]
    /\ InitLife /\ has_db = TRUE
    /\ pc = [h \in Handlers |-> "subsequent"]
    /\ \E fk \in [Handlers -> Keys], m \in [Handlers -> Mcaps] :
          frame = [h \in Handlers |->
                     [key |-> fk[h], mcap |-> m[h],
                      scan_info |-> GetScanInfoBody(token_scans, fk[h][1],
                                                    StrV(fk[h][2]), FALSE).result]]
    /\ out = [h \in Handlers |-> None]
    /\ loop = [p \in Procs |-> 0]

NextTrend == \E h \in Handlers : derive_trend(h)

SpecTrend == InitTrend /\ [][NextTrend]_vars

\* ---- a ledger call at the grain of its storage I/O ----
\* sqlite3.connect(self.db_path) is called without a timeout: a statement
\* that finds the store locked retries for the default 5 seconds and then
\* raises sqlite3.OperationalError
BusyTimeout == 5

\* the tasks of this part all run on the event loop of one process
IoProc == ProcOf(1)
IoGuilds == {1}
LedgerOps == {"save_scan", "get_scan_info"}

\* a busy handler that never gives up
RetryForever(waited) == TRUE

\* the busy handler retries while the call has waited less than the timeout
KeepWaiting(waited) == waited < BusyTimeout

\* a task awaits save_scan or get_scan_info: the body starts at once, on the
\* thread of the event loop, and has no await: the loop is held until the
\* body returns
begin_call(h) ==
    /\ pc[h] = "idle" /\ loop[IoProc] = 0
    /\ \E op \in LedgerOps, token_address \in Tokens, guild \in IoGuilds,
          mcap \in Mcaps :
         frame' = [frame EXCEPT ![h] =
                     [op |-> op, key |-> <<token_address, Dec(guild)>>,
                      guild_id |-> StrV(Dec(guild)),
                      mcap |-> IF op = "save_scan" THEN mcap ELSE 0,
                      waited |-> 0]]
    /\ pc' = [pc EXCEPT ![h] = "call"]
    /\ out' = [out EXCEPT ![h] = None]
    /\ loop' = [loop EXCEPT ![IoProc] = h]
    /\ UNCHANGED <<store, now, ret, first, has_db, life, cogs>>

\* the statement finds the store locked and the busy handler sleeps
wait_lock(h) ==
    /\ pc[h] = "call" /\ lock /\ KeepWaiting(frame[h].waited)
    /\ frame' = [frame EXCEPT ![h].waited =
                    IF @ < BusyTimeout THEN @ + 1 ELSE @]
    /\ UNCHANGED <<store, now, ret, first, has_db, pc, out, loop, life, cogs>>

\* the value a call hands back, tagged by its Python type: a bool from
\* save_scan, None or a row from get_scan_info
Returned(op, result) ==
    IF op = "save_scan" THEN [bool |-> result]
    ELSE IF result = None THEN None ELSE [row |-> result]

\* the body of the call runs to its return; fault: it hit sqlite3.Error
CallReturns(h, fault, timed_out) ==
    LET f == frame[h]
        r == IF f.op = "save_scan"
             THEN SaveScanBody(token_scans, f.key[1], IntV(AuthorOf(h)), f.mcap,
                               f.guild_id, now, fault)
             ELSE GetScanInfoBody(token_scans, f.key[1], f.guild_id, fault)
    IN  /\ token_scans' = r.rows
        /\ first' = IF f.op = "save_scan"
                    THEN NoteFirst(f.key, IntV(AuthorOf(h)), f.mcap, fault)
                    ELSE first
        /\ out' = [out EXCEPT ![h] = [kind |-> "returned", op |-> f.op,
                                      val |-> Returned(f.op, r.result),
                                      timed_out |-> timed_out]]
        /\ pc' = [pc EXCEPT ![h] = "idle"]
        /\ frame' = [frame EXCEPT ![h] = None]
        /\ loop' = [loop EXCEPT ![IoProc] = 0]
        /\ UNCHANGED <<price_history, now, ret, has_db, life, cogs>>

\* the busy handler gives up: "database is locked", a sqlite3.Error
timeout_call(h) ==
    /\ pc[h] = "call" /\ lock /\ ~KeepWaiting(frame[h].waited)
    /\ CallReturns(h, TRUE, TRUE)

\* the store is free: the statement runs
complete_call(h) ==
    /\ pc[h] = "call" /\ ~lock
    /\ \E fault \in BOOLEAN : CallReturns(h, fault, FALSE)

\* a connection of another program takes the write lock of the store file
take_lock ==
    /\ ~lock
    /\ lock' = TRUE
    /\ UNCHANGED <<store, now, ret, first, glue, mgr, bot, cogs>>

\* and releases it
release_lock ==
    /\ lock
    /\ lock' = FALSE
    /\ UNCHANGED <<store, now, ret, first, glue, mgr, bot, cogs>>

call_step(h) == wait_lock(h) \/ timeout_call(h) \/ complete_call(h)

InitIo == InitStore /\ InitGlue /\ InitLife /\ has_db = TRUE

NextIo ==
    \/ \E h \in Handlers : begin_call(h)
    \/ \E h \in Handlers : wait_lock(h)
    \/ \E h \in Handlers : timeout_call(h)
    \/ \E h \in Handlers : complete_call(h)
    \/ take_lock
    \/ release_lock

SpecIo == InitIo /\ [][NextIo]_vars

\* the thread that is inside a call keeps running
SpecIoFair == SpecIo /\ \A h \in Handlers : WF_vars(call_step(h))

\* ---- construction of the DatabaseManager ----
\* __init__ calls setup_database() first and assigns self.logger after it
LoggerBeforeSetup == FALSE

\* no DatabaseManager has been constructed
NotConstructed == [logger |-> FALSE, raised |-> "none", logged |-> FALSE, fault |-> FALSE]

\* how setup_database ends; fault: creating the table hit sqlite3.Error.
\* The except branch calls self.logger.error and re-raises; without the
\* attribute logger the handler itself raises AttributeError, nothing is
\* logged and the bare raise is not reached
SetupDatabaseOutcome(has_logger, fault) ==
    IF ~fault THEN [raised |-> "none", logged |-> FALSE]
    ELSE IF has_logger THEN [raised |-> "sqlite3.Error", logged |-> TRUE]
    ELSE [raised |-> "AttributeError", logged |-> FALSE]

\* DatabaseManager(): db_path, os.makedirs, setup_database, logger;
\* dir_fault: os.makedirs raised OSError
DatabaseManager_init ==
    /\ \E dir_fault \in BOOLEAN, fault \in BOOLEAN :
         LET o == SetupDatabaseOutcome(LoggerBeforeSetup, fault)
         IN  /\ mgr' = IF dir_fault
                       THEN [logger |-> FALSE, raised |-> "OSError",
                             logged |-> FALSE, fault |-> FALSE]
                       ELSE [logger |-> o.raised = "none", raised |-> o.raised,
                             logged |-> o.logged, fault |-> fault]
             /\ token_scans' = IF dir_fault \/ fault THEN token_scans
                               ELSE CreateTableIfNotExists(token_scans)
    /\ UNCHANGED <<price_history, now, ret, first, glue, lock, bot, cogs>>

InitCtor ==
    /\ InitStore /\ InitGlue /\ has_db = TRUE
    /\ lock = FALSE /\ bot = NewBot
    /\ mgr = NotConstructed
    /\ InitCogs

\* the ledger is called through a manager whose constructor returned
NextCtor ==
    \/ DatabaseManager_init
    \/ (mgr = Constructed /\ Tick)
    \/ (mgr = Constructed /\ save_scan)
    \/ (mgr = Constructed /\ get_scan_info)
    \/ (mgr = Constructed /\ update_price_history)
    \/ (mgr = Constructed /\ setup_database)

SpecCtor == InitCtor /\ [][NextCtor]_vars

\* ---- the CryptoBot: its connection, heartbeat and presence tasks ----
\* self.bg_task.cancel() and self.presence_task.cancel(): a task that exists
\* and has not finished is marked for cancellation; by: who called close
\* bg_task and presence_task are the tasks setup_hook created: a loop that
\* was restarted runs in another task, which these calls do not reach
CancelTasks(b, by) ==
    [b EXCEPT !.hb_cancel = IF b.hb \in {"absent", "done"} \/ b.gen.hb # 0 \/ @ # "no"
                            THEN @ ELSE by,
              !.pr_cancel = IF b.pr \in {"absent", "done"} \/ b.gen.pr # 0
                            THEN @ ELSE TRUE]

\* the task of loop who ends; the done callback of a task made by
\* create_background_task discards it from _background_tasks
Finish(b, who) == [b EXCEPT ![who] = "done", !.tasks = @ \ {who}]

\* create_background_task(coro): the new task is added to _background_tasks;
\* it begins at wait_until_ready
create_background_task(b, who) ==
    [b EXCEPT ![who] = "wait_ready", !.tasks = @ \cup {who}, !.gen[who] = @ + 1]

\* an Exception left the while loop of loop who: the outer handler logs it,
\* restarts the loop if the bot is not closed, and the task ends
Escaped(b, who) ==
    IF b.closed THEN Finish(b, who) ELSE create_background_task(Finish(b, who), who)

\* one more turn of a loop
Turn(b) == [b EXCEPT !.beat = 1 - @]

\* await cog.session.close() for the cogs that have a session
CloseSessions(b) == [b EXCEPT !.session = IF @ = "open" THEN "closed" ELSE @]

\* await super().close(): the client is closed and its WebSocket with it
SuperClose(b) ==
    [b EXCEPT !.closed = TRUE, !.ready = FALSE,
              !.ws = IF @ = "none" THEN "none" ELSE "closed"]

\* setup_hook: the cogs are loaded (Solana.cog_load opens its session) and
\* the two tasks are created; a cog that fails to load leaves the bot
\* without tasks, the exception is logged
setup_hook ==
    /\ bot.hb = "absent" /\ ~bot.closed
    /\ \E loaded \in BOOLEAN :
         bot' = IF loaded
                THEN [bot EXCEPT !.session = "open", !.hb = "wait_ready",
                                 !.pr = "wait_ready"]
                ELSE bot
    /\ UNCHANGED <<store, now, ret, first, glue, lock, mgr, cogs>>

\* the gateway session is up: ws is set and wait_until_ready returns
on_ready ==
    /\ bot.hb # "absent" /\ ~bot.closed /\ bot.ws # "open"
    /\ bot' = [bot EXCEPT !.ws = "open", !.ready = TRUE]
    /\ UNCHANGED <<store, now, ret, first, glue, lock, mgr, cogs>>

\* the connection is lost
ws_drop ==
    /\ bot.ws = "open"
    /\ bot' = [bot EXCEPT !.ws = "closed"]
    /\ UNCHANGED <<store, now, ret, first, glue, lock, mgr, cogs>>

\* the reconnect attempt of _heartbeat up to its first suspension: close()
\* cancels bg_task, which is the running task, then closes the sessions and
\* the client. stop: the await that first suspends; session_fault: closing a
\* session raised, close() logs it and returns without super().close()
Reconnect(b, stop, session_fault) ==
    LET b1 == [CancelTasks(b, "self") EXCEPT !.hb_try = "closing"]
    IN  IF session_fault /\ b.session = "open"
        THEN [b1 EXCEPT !.hb = "sleep5"]
        ELSE IF stop = "session"
        THEN [CloseSessions(b1) EXCEPT !.hb = "in_close"]
        ELSE IF stop = "super"
        THEN [SuperClose(CloseSessions(b1)) EXCEPT !.hb = "in_close"]
        ELSE [SuperClose(CloseSessions(b1)) EXCEPT !.hb = "sleep5"]

\* _heartbeat resumes from wait_until_ready or from its 30 s sleep: a
\* cancelled task ends with CancelledError; otherwise one turn of the loop
\* loop_fault: the sleep the task resumes from raised an Exception, which
\* no handler inside the loop covers
hb_wake ==
    /\ \/ bot.hb = "sleep30"
       \/ bot.hb = "wait_ready" /\ (bot.ready \/ bot.hb_cancel # "no")
    /\ \E stop \in {"session", "super", "sleep"}, session_fault \in BOOLEAN,
          loop_fault \in BOOLEAN :
         bot' = IF bot.hb_cancel # "no"
                THEN Finish(bot, "hb")
                ELSE IF loop_fault /\ bot.hb = "sleep30" /\ bot.gen.hb < MaxRestarts
                THEN Escaped(bot, "hb")
                ELSE IF bot.closed
                THEN Finish(bot, "hb")
                ELSE IF bot.ws = "open"
                THEN Turn([bot EXCEPT !.hb = "sleep30"])
                ELSE Reconnect(bot, stop, session_fault)
    /\ UNCHANGED <<store, now, ret, first, glue, lock, mgr, cogs>>

\* _heartbeat resumes inside close(): CancelledError is not an Exception,
\* it passes the handlers of close() and of the loop and ends the task
hb_in_close ==
    /\ bot.hb = "in_close"
    /\ bot' = IF bot.hb_cancel # "no"
              THEN Finish(bot, "hb")
              ELSE [SuperClose(bot) EXCEPT !.hb = "sleep5"]
    /\ UNCHANGED <<store, now, ret, first, glue, lock, mgr, cogs>>

\* _heartbeat resumes from the 5 s sleep before start(DISCORD_TOKEN);
\* start_fault: start raised, the loop sleeps 30 s and goes on
hb_after_sleep ==
    /\ bot.hb = "sleep5"
    /\ \E start_fault \in BOOLEAN :
         bot' = IF bot.hb_cancel # "no"
                THEN Finish(bot, "hb")
                ELSE IF start_fault
                THEN [bot EXCEPT !.hb = "sleep30"]
                ELSE [bot EXCEPT !.hb = "in_start", !.hb_try = "started"]
    /\ UNCHANGED <<store, now, ret, first, glue, lock, mgr, cogs>>

\* start(DISCORD_TOKEN) returns to _heartbeat: the client runs until it is
\* closed; the loop then logs the status and sleeps 30 s
hb_start_returns ==
    /\ bot.hb = "in_start" /\ (bot.closed \/ bot.hb_cancel # "no")
    /\ bot' = IF bot.hb_cancel # "no"
              THEN Finish(bot, "hb")
              ELSE [bot EXCEPT !.hb = "sleep30"]
    /\ UNCHANGED <<store, now, ret, first, glue, lock, mgr, cogs>>

\* _refresh_presence resumes from wait_until_ready or from its 300 s sleep
\* loop_fault: as in hb_wake
pr_wake ==
    /\ \/ bot.pr = "sleep300"
       \/ bot.pr = "wait_ready" /\ (bot.ready \/ bot.pr_cancel)
    /\ \E loop_fault \in BOOLEAN :
         bot' = IF bot.pr_cancel
                THEN Finish(bot, "pr")
                ELSE IF loop_fault /\ bot.pr = "sleep300" /\ bot.gen.pr < MaxRestarts
                THEN Escaped(bot, "pr")
                ELSE IF bot.closed
                THEN Finish(bot, "pr")
                ELSE Turn([bot EXCEPT !.pr = "sleep300"])
    /\ UNCHANGED <<store, now, ret, first, glue, lock, mgr, cogs>>

\* close() called by another task (main leaves `async with CryptoBot()`),
\* up to its first suspension: the tasks are cancelled and the sessions
\* begin to close; session_fault: closing a session raised, close() logs it
\* and returns without super().close()
close ==
    /\ bot.cl = "none"
    /\ \E session_fault \in BOOLEAN :
         bot' = [CancelTasks(bot, "other") EXCEPT
                   !.cl = IF session_fault /\ bot.session = "open"
                          THEN "done" ELSE "in_sessions"]
    /\ UNCHANGED <<store, now, ret, first, glue, lock, mgr, cogs>>

\* that close() resumes: the sessions are closed, then super().close()
close_resume ==
    /\ bot.cl = "in_sessions"
    /\ bot' = [SuperClose(CloseSessions(bot)) EXCEPT !.cl = "done"]
    /\ UNCHANGED <<store, now, ret, first, glue, lock, mgr, cogs>>

InitBot == InitStore /\ InitGlue /\ InitLife /\ has_db = TRUE

NextBot ==
    \/ setup_hook
    \/ on_ready
    \/ ws_drop
    \/ hb_wake
    \/ hb_in_close
    \/ hb_after_sleep
    \/ hb_start_returns
    \/ pr_wake
    \/ close
    \/ close_resume

SpecBot == InitBot /\ [][NextBot]_vars

\* the event loop resumes every task whose await has completed
SpecBotFair ==
    /\ SpecBot
    /\ WF_vars(hb_wake) /\ WF_vars(hb_in_close) /\ WF_vars(hb_after_sleep)
    /\ WF_vars(hb_start_returns) /\ WF_vars(pr_wake) /\ WF_vars(close_resume)

\* ---- the Solana cog: the per-user rate limiter ----
Cooldowns == {0, 1, 2}     \* the cooldown argument, in seconds

\* now - self.last_scan[user_id] < cooldown
WithinCooldownOrAt(last, t, cooldown) == t - last <= cooldown
WithinCooldown(last, t, cooldown) == t - last < cooldown

\* the times of the calls that returned True, before this call
AcceptedSoFar == IF effect = None THEN [u \in Users |-> None] ELSE effect.accepted

\* for each user the time of the latest call refused since the last
\* accepted one, before this call
RefusedSoFar == IF effect = None THEN [u \in Users |-> None] ELSE effect.refused

\* time.time() moves on between two calls
Elapse ==
    /\ now < MaxClock
    /\ now' = now + 1
    /\ UNCHANGED <<store, ret, first, glue, life, cogs>>

\* _check_rate_limit(user_id, cooldown): a user seen less than cooldown
\* seconds ago is refused; otherwise the time is recorded
_check_rate_limit ==
    /\ \E user_id \in Users, cooldown \in Cooldowns :
         LET refused == /\ last_scan[user_id] # None
                        /\ WithinCooldown(last_scan[user_id].int, now, cooldown)
         IN  /\ last_scan' = IF refused THEN last_scan
                             ELSE [last_scan EXCEPT ![user_id] = IntV(now)]
             /\ effect' = [op |-> "_check_rate_limit", user_id |-> user_id,
                           cooldown |-> cooldown, at |-> now, val |-> ~refused,
                           before |-> last_scan,
                           accepted |-> IF refused THEN AcceptedSoFar
                                        ELSE [AcceptedSoFar EXCEPT ![user_id] = IntV(now)],
                           refused |-> [RefusedSoFar EXCEPT ![user_id] =
                                          IF refused THEN IntV(now) ELSE None],
                           refused_before |-> RefusedSoFar[user_id]]
    /\ UNCHANGED <<store, now, ret, first, glue, life, input>>

InitRate == InitStore /\ InitGlue /\ InitLife /\ has_db = TRUE

NextRate ==
    \/ Elapse
    \/ _check_rate_limit

SpecRate == InitRate /\ [][NextRate]_vars

\* ---- the message handlers ----
\* a text is a sequence of symbols: "$", a blank, "l" (a letter outside the
\* base58 alphabet) and "B32", which stands for a run of 32 base58 characters
Chars    == {"$", " ", "l", "B32"}
Contents == UNION {[1..n -> Chars] : n \in 0..MaxLen}
Authors  == {"self", "bot", "user"}     \* the bot itself, another bot, a person
Messages == [author : Authors, content : Contents]

RECURSIVE lstrip(_)
lstrip(t) == IF t # <<>> /\ Head(t) = " " THEN lstrip(Tail(t)) ELSE t

RECURSIVE rstrip(_)
rstrip(t) == IF t # <<>> /\ t[Len(t)] = " " THEN rstrip(SubSeq(t, 1, Len(t) - 1)) ELSE t

\* str.strip()
strip(t) == rstrip(lstrip(t))

\* str.startswith('$')
startswith(t) == t # <<>> /\ Head(t) = "$"

\* is_contract_address(text): the whole text is 40 hex digits after 0x, or
\* 32 to 44 base58 characters; of the texts above only the single run is
is_contract_address(text) == text = <<"B32">>

\* what one call of a handler did: the send calls in order, how many of
\* them raised, the queries looked up, the calls of process_commands, and
\* whether the handler ended with an exception
Did(op, sent, failed, lookups, commands, raised) ==
    [op |-> op, sent |-> sent, failed |-> failed, lookups |-> lookups,
     commands |-> commands, raised |-> raised]

\* CryptoBot.on_message(message). fault: "typing" when entering
\* channel.typing() raises, "send" when channel.send raises (no permission
\* in the channel, a reply over 2000 characters); nothing in the handler
\* catches either, so process_commands is not reached
BotOnMessage(message, fault) ==
    LET op      == "CryptoBot.on_message"
        content == strip(message.content)
        query   == IF startswith(content) THEN strip(Tail(content)) ELSE content
    IN  IF message.author = "self"
        THEN Did(op, <<>>, 0, <<>>, 0, FALSE)
        ELSE IF startswith(content) \/ is_contract_address(content)
        THEN IF query # <<>>
             THEN IF fault = "typing"
                  THEN Did(op, <<>>, 0, <<>>, 0, TRUE)
                  ELSE IF fault = "send"
                  THEN Did(op, <<"response">>, 1, <<query>>, 0, TRUE)
                  ELSE Did(op, <<"response">>, 0, <<query>>, 1, FALSE)
             ELSE IF fault = "send"
                  THEN Did(op, <<"usage">>, 1, <<>>, 0, TRUE)
                  ELSE Did(op, <<"usage">>, 0, <<>>, 1, FALSE)
        ELSE Did(op, <<>>, 0, <<>>, 1, FALSE)

\* the gateway delivers a message: the library calls the on_message of the
\* bot and the on_message listener of the cog with it
message_create ==
    /\ \E message \in Messages : input' = message
    /\ effect' = None
    /\ UNCHANGED <<store, now, ret, first, glue, life, last_scan>>

\* the handlers share no state: each delivered message is followed through
\* one of them
CryptoBot_on_message ==
    /\ input # None /\ effect = None
    /\ \E fault \in {"none", "typing", "send"} :
         effect' = BotOnMessage(input, fault)
    /\ UNCHANGED <<store, now, ret, first, glue, life, last_scan, input>>

\* what a lookup step of Solana.on_message gives: a value, None, or an
\* exception; get_token_info may also give a dict without 'address'
InfoOutcomes == {"value", "no_address", "none", "raise"}
StepOutcomes == {"value", "none", "raise"}

\* an except block that only logs
FallbackSilent == <<>>

\* except Exception: the error is logged and one error reply is sent
FallbackReply == <<"error_processing">>

\* the body of the try of Solana.on_message up to the point where it sends
\* or raises: [sent: the send it makes, raised: an exception left the body]
TryBody(typing_fault, info, data, embed) ==
    IF typing_fault \/ info \in {"raise", "no_address"} THEN [sent |-> <<>>, raised |-> TRUE]
    ELSE IF info = "none" THEN [sent |-> <<"not_found">>, raised |-> FALSE]
    ELSE IF data = "raise" THEN [sent |-> <<>>, raised |-> TRUE]
    ELSE IF data = "none" THEN [sent |-> <<"no_price_data">>, raised |-> FALSE]
    ELSE IF embed = "raise" THEN [sent |-> <<>>, raised |-> TRUE]
    ELSE IF embed = "none" THEN [sent |-> <<"error_formatting">>, raised |-> FALSE]
    ELSE [sent |-> <<"embed">>, raised |-> FALSE]

\* Solana.on_message(message). send_fault: channel.send raises; a send that
\* raises inside the try goes to the handler, which sends again; a send that
\* raises inside the handler leaves on_message
SolanaOnMessage(message, typing_fault, info, data, embed, send_fault) ==
    LET op == "Solana.on_message"
        b  == TryBody(typing_fault, info, data, embed)
    IN  IF message.author \in {"self", "bot"}
        THEN Did(op, <<>>, 0, <<>>, 0, FALSE)
        ELSE IF ~startswith(message.content)
        THEN Did(op, <<>>, 0, <<>>, 0, FALSE)
        ELSE IF b.raised
        THEN Did(op, FallbackReply, IF send_fault THEN Len(FallbackReply) ELSE 0,
                 <<>>, 0, send_fault /\ FallbackReply # <<>>)
        ELSE IF send_fault
        THEN Did(op, b.sent \o FallbackReply, 1 + Len(FallbackReply), <<>>, 0,
                 FallbackReply # <<>>)
        ELSE Did(op, b.sent, 0, <<>>, 0, FALSE)

Solana_on_message ==
    /\ input # None /\ effect = None
    /\ \E typing_fault \in BOOLEAN, info \in InfoOutcomes, data \in StepOutcomes,
          embed \in StepOutcomes, send_fault \in BOOLEAN :
         effect' = SolanaOnMessage(input, typing_fault, info, data, embed, send_fault)
    /\ UNCHANGED <<store, now, ret, first, glue, life, last_scan, input>>

InitMsg == InitStore /\ InitGlue /\ InitLife /\ has_db = TRUE

NextMsg ==
    \/ message_create
    \/ CryptoBot_on_message
    \/ Solana_on_message

SpecMsg == InitMsg /\ [][NextMsg]_vars

\* ---- get_token_data: the merge of the four price sources ----
\* the sources in the order of the merge: 1 Jupiter, 2 DexScreener,
\* 3 Solscan, 4 Raydium
Sources  == 1..4
DataKeys == {"price", "volume"}

\* the exception object that gather(return_exceptions=True) hands back
Raised == [exception |-> TRUE]

\* what source i can answer: None, an exception, or a dict; in a dict a
\* value is 0 (falsy) or i, a truthy value that tells where it came from
SourceResults(i) ==
    {None, Raised} \cup UNION {[K -> {0, i}] : K \in SUBSET DataKeys}

\* isinstance(x, dict)
IsDict(x) == x \notin {None, Raised}

\* not combined_data.get(key)
FalsyAt(c, k) == k \notin DOMAIN c \/ c[k] = 0

\* combined_data.update(d)
update(c, d) ==
    [k \in DOMAIN c \cup DOMAIN d |-> IF k \in DOMAIN d THEN d[k] ELSE c[k]]

\* a merge in which a later source overwrites what is there
Overwrite(c, d) ==
    [k \in DOMAIN c \cup DOMAIN d |-> IF k \in DOMAIN d THEN d[k] ELSE c[k]]

\* for key, value in d.items(): if not combined_data.get(key): combined_data[key] = value
FillMissing(c, d) ==
    [k \in DOMAIN c \cup DOMAIN d |->
        IF k \in DOMAIN d /\ FalsyAt(c, k) THEN d[k] ELSE c[k]]

\* the body of get_token_data on the four gathered results
GetTokenData(res) ==
    LET c0 == << >>
        c1 == IF IsDict(res[1]) THEN update(c0, res[1]) ELSE c0
        c2 == IF IsDict(res[2]) THEN FillMissing(c1, res[2]) ELSE c1
        c3 == IF IsDict(res[3]) THEN FillMissing(c2, res[3]) ELSE c2
        c4 == IF IsDict(res[4]) THEN FillMissing(c3, res[4]) ELSE c3
    IN  IF DOMAIN c4 = {} THEN None ELSE c4

get_token_data ==
    /\ input # None /\ effect = None
    /\ effect' = [op |-> "get_token_data", val |-> GetTokenData(input)]
    /\ UNCHANGED <<store, now, ret, first, glue, life, last_scan, input>>

\* one call in hand, with any four answers of the sources
InitMerge ==
    /\ InitStore /\ InitGlue /\ has_db = TRUE
    /\ lock = FALSE /\ mgr = Constructed /\ bot = NewBot
    /\ last_scan = [u \in Users |-> None]
    /\ input \in [Sources -> UNION {SourceResults(i) : i \in Sources}]
    /\ \A i \in Sources : input[i] \in SourceResults(i)
    /\ effect = None

NextMerge ==
    \/ get_token_data

SpecMerge == InitMerge /\ [][NextMerge]_vars

\* ---- properties of the ledger ----
IsCall(op) == ret # None /\ ret.op = op


\* the row that the first call on pair k asked for
FirstRow(k) ==
    [token_address |-> k[1], first_scanner |-> first[k].scanner_id,
     scan_time |-> first[k].time, first_mcap |-> first[k].mcap, guild_id |-> k[2]]

FirstData(k) == <<first[k].scanner_id, first[k].time, first[k].mcap>>

\* C1: once a save_scan on a pair has reached the store, the table holds
\* exactly one row for the pair, its first_scanner, first_mcap and scan_time
\* are those of that first call whatever later calls asked for, and
\* get_scan_info returns that data.
C1_IdempotentFirstWrite ==
    /\ \A k \in Keys : first[k] # None => RowsOf(k) = {FirstRow(k)}
    /\ (IsCall("get_scan_info") /\ ~ret.fault /\ first[ret.key] # None)
          => ret.val = FirstData(ret.key)

\* a later save_scan with another scanner and valuation, at a later time,
\* has completed on a recorded pair
C1_Witness ==
    /\ IsCall("save_scan") /\ ~ret.fault /\ ~ret.created
    /\ ret.scanner_id # first[ret.key].scanner_id
    /\ ret.mcap # first[ret.key].mcap
    /\ now > first[ret.key].time

\* C2: save_scan returns true exactly when the call created the record, and
\* false when the record already existed.
C2_TrueIffCreated ==
    IsCall("save_scan") => (ret.val = TRUE <=> ret.created)

\* C3: of the save_scan calls made on one never-before-seen pair exactly one
\* returns true: a call that returns true is the first call to reach the
\* store for its pair, every other call returns false.
C3_ExactlyOneTrue ==
    [][(ret' # ret /\ ret'.op = "save_scan" /\ ret'.val = TRUE)
          => first[ret'.key] = None]_vars

\* C4: a pair never has two rows; after any number of save_scan calls that
\* reached the store it has exactly one, and the first_scanner and first_mcap
\* of the row are the two arguments of one single call.
C4_OneRowOneCall ==
    \A k \in Keys :
        /\ Cardinality(RowsOf(k)) <= 1
        /\ first[k] # None => Cardinality(RowsOf(k)) = 1
        /\ \A r \in RowsOf(k) :
              /\ first[k] # None
              /\ <<r.first_scanner, r.first_mcap>> = <<first[k].scanner_id, first[k].mcap>>

\* a call with another scanner and another valuation lost the race for a pair
C4_Witness ==
    /\ IsCall("save_scan") /\ ~ret.fault /\ ~ret.created
    /\ Cardinality(RowsOf(ret.key)) = 1
    /\ \A r \in RowsOf(ret.key) :
          r.first_scanner # ret.scanner_id /\ r.first_mcap # ret.mcap

\* C6: a row, once stored, is in the table after every ledger operation with
\* every field unchanged: the rows of a recorded pair never change.
C6_AppendOnce ==
    [][\A k \in Keys : RowsOf(k) # {} => RowsOf(k)' = RowsOf(k)]_vars

\* setup_database has run again on a store that holds scans and prices
C6_Witness ==
    /\ IsCall("setup_database") /\ ~ret.fault
    /\ token_scans # {} /\ price_history # {}

\* C7: a save_scan changes the rows of no other pair, and one that reaches
\* the store for a pair without a row creates the row and returns true,
\* whatever rows the other pairs have.
C7_RoomsIndependent ==
    [][(ret' # ret /\ ret'.op = "save_scan")
          => /\ \A k \in Keys \ {ret'.key} : RowsOf(k)' = RowsOf(k)
             /\ (~ret'.fault /\ RowsOf(ret'.key) = {})
                   => /\ ret'.created /\ ret'.val = TRUE
                      /\ Cardinality(RowsIn(token_scans', ret'.key)) = 1]_vars

\* one token has a row in two rooms, with different first scanners
C7_Witness ==
    \E r1, r2 \in token_scans :
        /\ r1.token_address = r2.token_address
        /\ r1.guild_id # r2.guild_id
        /\ r1.first_scanner # r2.first_scanner

\* C8: a get_scan_info leaves both tables as they were, and a save_scan that
\* reaches the store right after a lookup found its pair unscanned creates
\* the row from its own arguments.
C8_LookupNeverMutates ==
    [][/\ (ret' # ret /\ ret'.op = "get_scan_info")
             => token_scans' = token_scans /\ price_history' = price_history
       /\ (ret' # ret /\ ret'.op = "save_scan" /\ ~ret'.fault /\ ret'.looked)
             => /\ ret'.created /\ ret'.val = TRUE
                /\ RowsIn(token_scans', ret'.key) =
                     {[token_address |-> ret'.key[1],
                       first_scanner |-> ret'.scanner_id,
                       scan_time |-> now, first_mcap |-> ret'.mcap,
                       guild_id |-> ret'.key[2]]}]_vars

\* a save_scan created the row of a pair that a lookup had just found unscanned
C8_Witness ==
    IsCall("save_scan") /\ ~ret.fault /\ ret.looked /\ ret.created

\* C9: a get_scan_info that reaches the store returns None exactly when no
\* save_scan on the pair has reached the store, and otherwise the
\* first_scanner, scan_time and first_mcap of the call that created the row,
\* in whatever form the ids were passed.
C9_RoundTrip ==
    (IsCall("get_scan_info") /\ ~ret.fault)
       => /\ ret.val = None <=> first[ret.key] = None
          /\ first[ret.key] # None => ret.val = FirstData(ret.key)

\* a lookup with the guild id in one form found the row saved with the other form
C9_Witness ==
    /\ IsCall("get_scan_info") /\ ~ret.fault /\ ret.val # None
    /\ ret.saved_as # None
    /\ DOMAIN ret.guild_id # DOMAIN ret.saved_as

\* C10: a save_scan that hits sqlite3.Error writes no row, and its outcome
\* differs from the outcome of every save_scan that reaches the store,
\* whether that one records the pair or finds it recorded.
C10_FailureDistinct ==
    /\ IsCall("save_scan") /\ ret.fault => ~ret.created
    /\ \A t \in Tokens, g \in Forms(Guilds) :
          LET bad == SaveScanBody(token_scans, t, IntV(1), 0, g, now, TRUE)
          IN  /\ bad.rows = token_scans
              /\ \A t2 \in Tokens, g2 \in Forms(Guilds), u \in Forms(Users), m \in Mcaps :
                    bad.result # SaveScanBody(token_scans, t2, u, m, g2, now, FALSE).result

\* a save_scan failed on a store where one pair is recorded and another is not
C10_Witness ==
    /\ IsCall("save_scan") /\ ret.fault /\ ret.val = FALSE
    /\ \E k1, k2 \in Keys : RowsOf(k1) # {} /\ RowsOf(k2) = {}

\* C11: the result of a get_scan_info that could not read the store differs
\* from the result of a get_scan_info that reads the store and finds no row
\* for its pair.
C11_NoRecordVsUnreadable ==
    (IsCall("get_scan_info") /\ ret.fault)
       => \A t \in Tokens, g \in Forms(Guilds) :
             RowsOf(<<t, Str(g)>>) = {}
                => ret.val # GetScanInfoBody(token_scans, t, g, FALSE).result

\* ---- properties of the glue ----
\* the invocations that told their author "you are first" for pair k, having
\* found the pair unscanned, with both ledger calls answered by the store
FirstFor(k) ==
    {h \in Handlers : /\ out[h] # None /\ out[h].kind = "first"
                      /\ out[h].key = k /\ out[h].unscanned}

\* C5: of the format_scan_info invocations started on a never-scanned pair at
\* most one returns the "you are first" text, and the user it names is the
\* first_scanner stored for the pair.
C5_SingleFirstScanner ==
    \A k \in Keys :
        /\ Cardinality(FirstFor(k)) <= 1
        /\ \A h \in FirstFor(k) :
              \A r \in RowsOf(k) : r.first_scanner = Dec(out[h].name)

\* C12: an invocation whose lookup could not read the store returns neither
\* the "you are first" text nor a trend text, and writes no row.
C12_UnknownIsNotFirst ==
    [][\A h \in Handlers :
          (pc[h] = "first" /\ ~frame[h].unscanned /\ pc'[h] = "idle")
             => /\ out'[h].kind \notin {"first", "trend"}
                /\ token_scans' = token_scans]_vars

\* C13: whatever get_scan_info, save_scan and fetch_user do (answer, failure
\* value, exception), what format_scan_info hands to its caller is a string:
\* the empty one, the "you are first" text or the trailer, never an exception.
C13_NeverRaises ==
    \A h \in Handlers :
        out[h] # None => out[h].kind \in {"empty", "first", "trend"}

\* one invocation has returned after a ledger call raised, another after
\* fetch_user raised
C13_Witness ==
    \E h1, h2 \in Handlers :
        /\ out[h1] = ExceptException("Exception")
        /\ out[h2] = ExceptException("NotFound")

\* C14: a later mention of a recorded pair, with the store answering and the
\* first scanner fetched, returns the trailer: the trend, the first scanner
\* and the first valuation of the fetched row.
C14_SubsequentTrailer ==
    [][\A h \in Handlers :
          (pc[h] = "subsequent" /\ pc'[h] = "idle"
             /\ out'[h] # ExceptException("NotFound"))
             => /\ out'[h].kind = "trend"
                /\ out'[h].trend \in {"pumped", "dipped"}
                /\ out'[h].first_scanner = ParseInt(frame[h].scan_info[1])
                /\ out'[h].first_mcap = frame[h].scan_info[3]]_vars

C16_ZeroValuation ==
    /\ \A k \in Keys :
          (first[k] # None /\ first[k].mcap = 0)
             => LET r == GetScanInfoBody(token_scans, k[1], StrV(k[2]), FALSE)
                IN  /\ RowsOf(k) = {FirstRow(k)}
                    /\ r.result = FirstData(k)
                    /\ ~Falsy(r.result)
    /\ \A h \in Handlers :
          pc[h] = "subsequent" => frame[h].scan_info = FirstData(frame[h].key)

\* an invocation is in the later-mention branch with the row of a pair that
\* was first saved with valuation 0
C16_Witness ==
    \E h \in Handlers :
        /\ pc[h] = "subsequent"
        /\ frame[h].scan_info[3] = 0
        /\ first[frame[h].key].mcap = 0

\* C17: while one task is inside save_scan or get_scan_info, every other
\* idle task of the process can start its own step.
C17_CallsYield ==
    \A h, h2 \in Handlers :
        (h # h2 /\ pc[h] = "call" /\ pc[h2] = "idle") => ENABLED begin_call(h2)

\* C18: every save_scan or get_scan_info that has started returns, and one
\* that found the store locked for the whole busy timeout returns the
\* failure value of its operation (False, None) and has written nothing.
C18_CallsReturn ==
    /\ \A h \in Handlers : (pc[h] = "call") ~> (pc[h] = "idle" /\ out[h] # None)
    /\ [](\A h \in Handlers :
             (out[h] # None /\ out[h].timed_out)
                => out[h].val = IF out[h].op = "save_scan" THEN [bool |-> FALSE]
                                ELSE None)

\* a save_scan and a get_scan_info have each given up on a locked store
C18_Witness ==
    \E h1, h2 \in Handlers :
        /\ out[h1] # None /\ out[h1].timed_out /\ out[h1].op = "save_scan"
        /\ out[h2] # None /\ out[h2].timed_out /\ out[h2].op = "get_scan_info"

\* C19: a DatabaseManager whose table creation failed with sqlite3.Error
\* has logged the error, and the exception that left the constructor is
\* that sqlite3.Error.
C19_SqliteErrorPropagates ==
    mgr.fault => (mgr.logged /\ mgr.raised = "sqlite3.Error")

\* C20: the heartbeat task does not end between the close() of its own
\* reconnect attempt and the start(DISCORD_TOKEN) that follows it.
C20_HeartbeatSurvivesReconnect ==
    ~(bot.hb = "done" /\ bot.hb_try = "closing" /\ bot.hb_cancel = "self")

\* C21: a close() that has returned has closed the Discord connection
\* (super().close() was reached), also when closing a session raised.
C21_CloseReachesSuper ==
    bot.cl = "done" => bot.closed

\* a loop of the bot has stopped: its task was never created or has ended
Stopped(who) == bot[who] \in {"absent", "done"}

\* the loops that run in a task made by create_background_task
Restarted == {who \in {"hb", "pr"} : bot.gen[who] > 0 /\ ~Stopped(who)}

IsRateCall == effect # None /\ effect.op = "_check_rate_limit"

\* C23: for each user the first call returns True and records the time; a
\* call less than cooldown seconds after the last accepted call returns
\* False and leaves last_scan as it was; a call at or after the cooldown
\* returns True and records the new time; the entries of the other users
\* are not touched.
C23_RateLimiter ==
    IsRateCall =>
        LET u    == effect.user_id
            last == effect.before[u]
        IN  /\ effect.before = (IF effect.val
                                THEN [effect.accepted EXCEPT ![u] = last]
                                ELSE effect.accepted)
            /\ last_scan = effect.accepted
            /\ last = None => (effect.val /\ last_scan[u] = IntV(effect.at))
            /\ (last # None /\ effect.at - last.int < effect.cooldown)
                  => (~effect.val /\ last_scan = effect.before)
            /\ (last # None /\ effect.at - last.int >= effect.cooldown)
                  => (effect.val /\ last_scan[u] = IntV(effect.at))
            /\ \A v \in Users \ {u} : last_scan[v] = effect.before[v]

\* a call accepted exactly at the cooldown, after a call of the same user
\* was refused in between
C23_Witness ==
    /\ IsRateCall /\ effect.val
    /\ effect.before[effect.user_id] # None
    /\ effect.at - effect.before[effect.user_id].int = effect.cooldown
    /\ effect.refused_before # None
    /\ effect.refused_before.int > effect.before[effect.user_id].int

\* C24: on a bot without a db attribute format_scan_info returns the empty
\* string and makes no ledger call: no invocation ever holds a lookup or
\* waits for a save, the store is never written, and every invocation that
\* has returned gave "".
C24_NoDbNoLedger ==
    ~has_db =>
        /\ \A h \in Handlers :
              /\ pc[h] = "idle" /\ frame[h] = None
              /\ out[h] \in {None, Empty}
        /\ token_scans = {} /\ price_history = {}
        /\ \A k \in Keys : first[k] = None
        /\ \A p \in Procs : loop[p] = 0

\* without a db, every invocation has returned ""
C24_Witness ==
    ~has_db /\ \A h \in Handlers : out[h] = Empty

IsBotMessage == effect # None /\ effect.op = "CryptoBot.on_message"

\* C25: CryptoBot.on_message answers nothing and processes no command for
\* a message of the bot itself; for every other message process_commands is
\* called exactly once; a message that starts with '$' and has an empty
\* query gets the usage prompt and no price lookup.
C25_BotOnMessage ==
    IsBotMessage =>
        /\ input.author = "self"
              => (effect.sent = <<>> /\ effect.lookups = <<>> /\ effect.commands = 0)
        /\ input.author # "self" => effect.commands = 1
        /\ (input.author # "self" /\ startswith(input.content)
               /\ strip(Tail(input.content)) = <<>>)
              => (effect.sent = <<"usage">> /\ effect.lookups = <<>>)

IsCogMessage == effect # None /\ effect.op = "Solana.on_message"

\* C26: when sending succeeds, Solana.on_message sends exactly one reply
\* for a message of a non-bot author that starts with '$', on every path,
\* and sends nothing for a message of a bot or one that does not start
\* with '$'.
C26_OneReply ==
    (IsCogMessage /\ effect.failed = 0) =>
        IF input.author = "user" /\ startswith(input.content)
        THEN Len(effect.sent) = 1 /\ ~effect.raised
        ELSE effect.sent = <<>>

\* the reply of the exception path has been sent to a person
C26_Witness ==
    /\ IsCogMessage /\ effect.failed = 0
    /\ input.author = "user" /\ startswith(input.content)
    /\ effect.sent = <<"error_processing">>

IsMerge == effect # None /\ effect.op = "get_token_data"

\* the sources that answered with a dict holding key k, and those among
\* them whose value is truthy
Holders(k) == {i \in Sources : IsDict(input[i]) /\ k \in DOMAIN input[i]}
TruthyHolders(k) == {i \in Holders(k) : input[i][k] # 0}

First(S) == CHOOSE i \in S : \A j \in S : i <= j

\* C27: get_token_data merges Jupiter, DexScreener, Solscan, Raydium in
\* that priority: a key keeps the truthy value of the first source that has
\* one, a failed source (None or an exception) adds nothing, and the result
\* is None exactly when no source contributed a key.
C27_MergePriority ==
    IsMerge =>
        LET contributed == {k \in DataKeys : Holders(k) # {}}
        IN  /\ effect.val = None <=> contributed = {}
            /\ effect.val # None =>
                  /\ DOMAIN effect.val = contributed
                  /\ \A k \in contributed :
                        IF TruthyHolders(k) # {}
                        THEN effect.val[k] = First(TruthyHolders(k))
                        ELSE effect.val[k] = 0

\* Jupiter and DexScreener both gave a price, Solscan raised, Raydium gave
\* None: the price of the result is Jupiter's
C27_Witness ==
    /\ IsMerge
    /\ TruthyHolders("price") = {1, 2}
    /\ input[3] = Raised /\ input[4] = None
    /\ effect.val["price"] = 1

====
